---- MODULE Spec2Model ----
(***************************************************************************)
(* Configuration resolution and resource composition of the Laravel        *)
(* Kubernetes infrastructure program (infrastructure/pulumi).              *)
(*                                                                         *)
(* The program is a single top-level script (index) that reads a Pulumi    *)
(* configuration store through the Config class and registers Kubernetes   *)
(* resources by calling one builder per selected backend.  The model keeps *)
(* the stack name, the override store, the position of the script, the     *)
(* resources registered so far, the script's local handles, the thrown     *)
(* error, the exported outputs and the deployment summary.                 *)
(***************************************************************************)
EXTENDS Integers, Sequences, FiniteSets, TLC

VARIABLES stack, cfg, pc, resources, invoked, handles, error, outputs, summary, resolved,
          previous

vars == <<stack, cfg, pc, resources, invoked, handles, error, outputs, summary, resolved,
          previous>>

(***************************************************************************)
(* Bounds                                                                  *)
(***************************************************************************)

\* largest number of keys the override store sets at once
MaxOverrides == 2

(***************************************************************************)
(* The Pulumi configuration store: a partial map from key to string.       *)
(* A key outside DOMAIN cfg has no override.                               *)
(***************************************************************************)

NoOverrides == [k \in {} |-> ""]

Has(k) == k \in DOMAIN cfg

\* pulumi.Config.get: the raw string (only read under Has)
Get(k) == cfg[k]

\* pulumi.Config.getBoolean: parses "true" / "false"
GetBoolean(k) == cfg[k] = "true"

\* pulumi.Config.getNumber: parses the decimal string
ParseNumber(s) ==
  CASE s = "0" -> 0
    [] s = "1" -> 1
    [] s = "2" -> 2
    [] s = "3" -> 3
    [] s = "4" -> 4
    [] s = "5" -> 5
    [] OTHER -> 0

GetNumber(k) == ParseNumber(cfg[k])

\* getBoolean(k) ?? d : the default only when the key is absent
NullishBool(k, d) == IF Has(k) THEN GetBoolean(k) ELSE d

\* getBoolean(k) || d : the default also when the override is false
OrBool(k, d) == IF Has(k) /\ GetBoolean(k) THEN TRUE ELSE d

\* get(k) || d : the default also when the override is the empty string
OrStr(k, d) == IF Has(k) /\ Get(k) # "" THEN Get(k) ELSE d

\* getNumber(k) || d : the default also when the override is 0
OrNum(k, d) == IF Has(k) /\ GetNumber(k) # 0 THEN GetNumber(k) ELSE d

\* getSecret(k) : a deferred secret output, or undefined
HasSecret(k) == Has(k)

(***************************************************************************)
(* Config class                                                            *)
(***************************************************************************)

isLocal == stack = "dev" \/ stack = "local"

isProduction == stack = "production" \/ stack = "prod"

getStack == stack

getNamespace == OrStr("laravel:namespace", "laravel-" \o stack)

\* a thrown error; kind "none" is normal completion
NoError == [kind |-> "none", key |-> ""]

\* pulumi.Config.require on an absent key
ConfigMissingError(k) == [kind |-> "ConfigMissingError", key |-> k]

\* pulumi.secret(v) / getSecret(k): a deferred secret output
SecretOf(v) == [form |-> "secret", value |-> v]

\* a plain string written into the configuration object
LiteralOf(v) == [form |-> "literal", value |-> v]

\* getSecret(k) || pulumi.secret(d)
OrSecret(k, d) == IF HasSecret(k) THEN SecretOf(Get(k)) ELSE SecretOf(d)

getLaravelConfig ==
  [ environment |-> OrStr("laravel:environment", stack),
    debug |-> OrBool("laravel:debug", ~isProduction),
    appName |-> OrStr("laravel:appName", "Laravel"),
    appUrl |-> OrStr("laravel:appUrl", "http://localhost"),
    appKey |-> OrSecret("laravel:appKey", "base64:changeme"),
    webReplicas |-> OrNum("laravel:webReplicas", IF isLocal THEN 1 ELSE 3),
    webMinReplicas |-> OrNum("laravel:webMinReplicas", 1),
    webMaxReplicas |-> OrNum("laravel:webMaxReplicas", 10),
    workerReplicas |-> OrNum("laravel:workerReplicas", IF isLocal THEN 1 ELSE 2),
    workerMinReplicas |-> OrNum("laravel:workerMinReplicas", 1),
    workerMaxReplicas |-> OrNum("laravel:workerMaxReplicas", 20),
    reverbReplicas |-> OrNum("laravel:reverbReplicas", 1),
    reverbMinReplicas |-> OrNum("laravel:reverbMinReplicas", 1),
    reverbMaxReplicas |-> OrNum("laravel:reverbMaxReplicas", 5) ]

getPostgresConfig ==
  [ enabled |-> NullishBool("postgres:enabled", isLocal),
    host |-> OrStr("postgres:host", "postgres"),
    port |-> OrNum("postgres:port", 5432),
    database |-> OrStr("postgres:database", "laravel"),
    username |-> LiteralOf(OrStr("postgres:username", "laravel")),
    password |-> OrSecret("postgres:password", "changeme"),
    replicas |-> OrNum("postgres:replicas", 1),
    storageSize |-> OrStr("postgres:storageSize", "10Gi") ]

getMySQLConfig ==
  [ enabled |-> NullishBool("mysql:enabled", FALSE),
    host |-> OrStr("mysql:host", "mysql"),
    port |-> OrNum("mysql:port", 3306),
    database |-> OrStr("mysql:database", "laravel"),
    username |-> LiteralOf(OrStr("mysql:username", "laravel")),
    password |-> OrSecret("mysql:password", "changeme"),
    version |-> OrStr("mysql:version", "8.4"),
    replicas |-> OrNum("mysql:replicas", 1),
    storageSize |-> OrStr("mysql:storageSize", "10Gi") ]

getMariaDBConfig ==
  [ enabled |-> NullishBool("mariadb:enabled", FALSE),
    host |-> OrStr("mariadb:host", "mariadb"),
    port |-> OrNum("mariadb:port", 3306),
    database |-> OrStr("mariadb:database", "laravel"),
    username |-> LiteralOf(OrStr("mariadb:username", "laravel")),
    password |-> OrSecret("mariadb:password", "changeme"),
    version |-> OrStr("mariadb:version", "11.4"),
    replicas |-> OrNum("mariadb:replicas", 1),
    storageSize |-> OrStr("mariadb:storageSize", "10Gi") ]

\* the engine is cast with "as any": whatever string is stored comes back
\* getDatabaseConfig with mysql as the engine of last resort
getDatabaseConfig_MySQL ==
  [ engine |-> OrStr("database:engine", "mysql"),
    version |-> OrStr("database:version", "16"),
    enablePostGIS |-> OrBool("database:enablePostGIS", FALSE),
    enableTimescaleDB |-> OrBool("database:enableTimescaleDB", FALSE) ]

getDatabaseConfig ==
  [ engine |-> OrStr("database:engine", "postgresql"),
    version |-> OrStr("database:version", "16"),
    enablePostGIS |-> OrBool("database:enablePostGIS", FALSE),
    enableTimescaleDB |-> OrBool("database:enableTimescaleDB", FALSE) ]

getRedisConfig ==
  [ enabled |-> NullishBool("redis:enabled", isLocal),
    host |-> OrStr("redis:host", "redis"),
    port |-> OrNum("redis:port", 6379),
    hasPassword |-> HasSecret("redis:password"),
    replicas |-> OrNum("redis:replicas", 1),
    tls |-> OrBool("redis:tls", FALSE) ]

getMemcachedConfig ==
  [ enabled |-> NullishBool("memcached:enabled", FALSE),
    host |-> OrStr("memcached:host", "memcached"),
    port |-> OrNum("memcached:port", 11211),
    version |-> OrStr("memcached:version", "1.6"),
    replicas |-> OrNum("memcached:replicas", 1) ]

getCacheConfig ==
  [ engine |-> OrStr("cache:engine", "redis"),
    version |-> OrStr("cache:version", "7.4") ]

getKafkaConfig ==
  [ enabled |-> NullishBool("kafka:enabled", isLocal),
    brokers |-> OrStr("kafka:brokers", "kafka:9092"),
    replicas |-> OrNum("kafka:replicas", 1),
    storageSize |-> OrStr("kafka:storageSize", "10Gi"),
    hasSaslMechanism |-> Has("kafka:saslMechanism") /\ Get("kafka:saslMechanism") # "",
    hasUsername |-> Has("kafka:username") /\ Get("kafka:username") # "",
    hasPassword |-> HasSecret("kafka:password") ]

getRabbitMQConfig ==
  [ enabled |-> NullishBool("rabbitmq:enabled", isLocal),
    host |-> OrStr("rabbitmq:host", "rabbitmq"),
    port |-> OrNum("rabbitmq:port", 5672),
    managementPort |-> OrNum("rabbitmq:managementPort", 15672),
    username |-> LiteralOf(OrStr("rabbitmq:username", "guest")),
    password |-> OrSecret("rabbitmq:password", "guest"),
    replicas |-> OrNum("rabbitmq:replicas", 1),
    tls |-> OrBool("rabbitmq:tls", FALSE) ]

getBeanstalkdConfig ==
  [ enabled |-> NullishBool("beanstalkd:enabled", FALSE),
    host |-> OrStr("beanstalkd:host", "beanstalkd"),
    port |-> OrNum("beanstalkd:port", 11300),
    version |-> OrStr("beanstalkd:version", "latest"),
    replicas |-> OrNum("beanstalkd:replicas", 1) ]

getQueueConfig ==
  [ engine |-> OrStr("queue:engine", "rabbitmq"),
    version |-> OrStr("queue:version", "3.13") ]

\* getStorageConfig with the s3 bucket read like the minio bucket, through
\* get(...) || 'laravel', instead of require
getStorageConfig_Defaulted ==
  IF NullishBool("minio:enabled", isLocal)
  THEN [ error |-> NoError,
         type |-> "minio",
         bucket |-> OrStr("minio:bucket", "laravel"),
         accessKey |-> LiteralOf(OrStr("minio:accessKey", "minioadmin")),
         secretKey |-> OrSecret("minio:secretKey", "minioadmin"),
         replicas |-> OrNum("minio:replicas", 1),
         storageSize |-> OrStr("minio:storageSize", "20Gi") ]
  ELSE [ error |-> NoError,
         type |-> "s3",
         bucket |-> OrStr("s3:bucket", "laravel"),
         accessKey |-> OrSecret("s3:accessKey", "changeme"),
         secretKey |-> OrSecret("s3:secretKey", "changeme"),
         replicas |-> 0,
         storageSize |-> "" ]

\* the s3 branch calls config.require('s3:bucket'), which throws on an absent key
getStorageConfig ==
  IF NullishBool("minio:enabled", isLocal)
  THEN [ error |-> NoError,
         type |-> "minio",
         bucket |-> OrStr("minio:bucket", "laravel"),
         accessKey |-> LiteralOf(OrStr("minio:accessKey", "minioadmin")),
         secretKey |-> OrSecret("minio:secretKey", "minioadmin"),
         replicas |-> OrNum("minio:replicas", 1),
         storageSize |-> OrStr("minio:storageSize", "20Gi") ]
  ELSE IF Has("s3:bucket")
  THEN [ error |-> NoError,
         type |-> "s3",
         bucket |-> Get("s3:bucket"),
         accessKey |-> OrSecret("s3:accessKey", "changeme"),
         secretKey |-> OrSecret("s3:secretKey", "changeme"),
         replicas |-> 0,
         storageSize |-> "" ]
  ELSE [ error |-> ConfigMissingError("s3:bucket"),
         type |-> "",
         bucket |-> "",
         accessKey |-> LiteralOf(""),
         secretKey |-> LiteralOf(""),
         replicas |-> 0,
         storageSize |-> "" ]

\* the elasticsearch branch calls config.require('elasticsearch:host')
getSearchConfig ==
  IF NullishBool("meilisearch:enabled", TRUE)
  THEN [ error |-> NoError,
         type |-> "meilisearch",
         host |-> OrStr("meilisearch:host", "http://meilisearch:7700"),
         hasMasterKey |-> TRUE,
         replicas |-> OrNum("meilisearch:replicas", 1) ]
  ELSE IF Has("elasticsearch:host")
  THEN [ error |-> NoError,
         type |-> "elasticsearch",
         host |-> Get("elasticsearch:host"),
         hasMasterKey |-> FALSE,
         replicas |-> OrNum("elasticsearch:replicas", 1) ]
  ELSE [ error |-> ConfigMissingError("elasticsearch:host"),
         type |-> "",
         host |-> "",
         hasMasterKey |-> FALSE,
         replicas |-> 0 ]

\* null when disabled
getMailpitConfig ==
  [ enabled |-> NullishBool("mailpit:enabled", isLocal),
    smtpPort |-> OrNum("mailpit:smtpPort", 1025),
    uiPort |-> OrNum("mailpit:uiPort", 8025) ]

getIngressConfig ==
  [ enabled |-> NullishBool("ingress:enabled", TRUE),
    className |-> OrStr("ingress:className", "nginx"),
    host |-> OrStr("ingress:host", "laravel.local"),
    tls |-> OrBool("ingress:tls", FALSE) ]

getObservabilityConfig ==
  [ prometheus |-> NullishBool("observability:prometheus", TRUE),
    grafana |-> NullishBool("observability:grafana", TRUE),
    loki |-> NullishBool("observability:loki", isProduction),
    tempo |-> NullishBool("observability:tempo", FALSE),
    alertmanager |-> NullishBool("observability:alertmanager", isProduction) ]

\* getFeatureFlags with hpa read through || instead of ??
getFeatureFlags_OrDefault ==
  [ hpa |-> OrBool("features:hpa", ~isLocal),
    pdb |-> NullishBool("features:pdb", isProduction),
    networkPolicies |-> NullishBool("features:networkPolicies", isProduction),
    podSecurityPolicies |-> NullishBool("features:podSecurityPolicies", isProduction),
    resourceQuotas |-> NullishBool("features:resourceQuotas", isProduction) ]

getFeatureFlags ==
  [ hpa |-> NullishBool("features:hpa", ~isLocal),
    pdb |-> NullishBool("features:pdb", isProduction),
    networkPolicies |-> NullishBool("features:networkPolicies", isProduction),
    podSecurityPolicies |-> NullishBool("features:podSecurityPolicies", isProduction),
    resourceQuotas |-> NullishBool("features:resourceQuotas", isProduction) ]

getArgoCDConfig ==
  [ enabled |-> NullishBool("argocd:enabled", FALSE),
    host |-> OrStr("argocd:host", "argocd.k8s.orb.local"),
    enableIngress |-> NullishBool("argocd:enableIngress", TRUE) ]

(***************************************************************************)
(* Labels (utils/labels, constants/label-keys)                             *)
(***************************************************************************)

APP_NAME == "app.kubernetes.io/name"

APP_VERSION == "app.kubernetes.io/version"

APP_COMPONENT == "app.kubernetes.io/component"

APP_PART_OF == "app.kubernetes.io/part-of"

APP_MANAGED_BY == "app.kubernetes.io/managed-by"

ENVIRONMENT == "environment"

NoLabels == [k \in {} |-> ""]

generateLabels(name, component, environment, version) ==
  (APP_NAME :> name) @@ (APP_COMPONENT :> component)
    @@ (APP_PART_OF :> "laravel-stack") @@ (APP_MANAGED_BY :> "pulumi")
    @@ (APP_VERSION :> version) @@ (ENVIRONMENT :> environment)

\* selector labels that repeat the full label set
generateSelectorLabels_Full(name, component) ==
  generateLabels(name, component, "production", "latest")

generateSelectorLabels(name, component) ==
  (APP_NAME :> name) @@ (APP_COMPONENT :> component)

\* a version default that differs from one run of the program to the next
DefaultVersion_Stamped == IF previous.run THEN "latest-1" ELSE "latest"

\* the default of generateLabels' fourth parameter
DefaultVersion == "latest"

(***************************************************************************)
(* Resources.  An optional number is <<>> (undefined) or <<n>>.            *)
(***************************************************************************)

\* a container environment without entries
NoEnv == [n \in {} |-> [from |-> "value", ref |-> ""]]

Resource(kind, rname, name, labels, selector, builder, replicas) ==
  [ kind |-> kind, rname |-> rname, name |-> name, labels |-> labels,
    selector |-> selector, builder |-> builder, replicas |-> replicas,
    minReplicas |-> <<>>, maxReplicas |-> <<>>, minAvailable |-> <<>>,
    env |-> NoEnv, storage |-> <<>>, target |-> "", port |-> <<>> ]

createNamespace(name, labels) ==
  Resource("Namespace", name, name, labels, NoLabels, "createNamespace", <<>>)

createSecret(name, labels, builder) ==
  Resource("Secret", name, name, labels, NoLabels, builder, <<>>)

createHPA(name, targetName, minReplicas, maxReplicas, labels, builder) ==
  [ Resource("HorizontalPodAutoscaler", name, name, labels, NoLabels, builder, <<>>)
      EXCEPT !.target = targetName,
             !.minReplicas = <<minReplicas>>, !.maxReplicas = <<maxReplicas>> ]

createPDB(name, selector, minAvailable, labels, builder) ==
  [ Resource("PodDisruptionBudget", name, name, labels, selector, builder, <<>>)
      EXCEPT !.minAvailable = <<minAvailable>> ]

\* what a builder hands back: the resources it registered and the fields
\* that are set on the object it returns
Built(rs, fields) == [resources |-> rs, fields |-> fields, error |-> NoError]

\* a builder that threw before registering anything
Threw(e) == [resources |-> {}, fields |-> {}, error |-> e]

Max(a, b) == IF a >= b THEN a ELSE b

(***************************************************************************)
(* Builders (components)                                                   *)
(***************************************************************************)

createPostgres ==
  LET postgresConfig == getPostgresConfig
      labels == generateLabels("postgres", "database", getStack, DefaultVersion)
      selectorLabels == generateSelectorLabels("postgres", "database")
  IN IF ~postgresConfig.enabled
     THEN Built({}, {})
     ELSE Built(
       { createSecret("postgres-credentials", labels, "createPostgres"),
         [ Resource("StatefulSet", "postgres", "postgres", labels, selectorLabels,
                    "createPostgres", <<postgresConfig.replicas>>)
             EXCEPT !.storage = <<postgresConfig.storageSize>>, !.port = <<5432>> ],
         [ Resource("Service", "postgres-service", "postgres", labels, selectorLabels,
                  "createPostgres", <<>>)
             EXCEPT !.port = <<5432>> ] },
       {"statefulSet", "service", "secret"})

\* createMySQL without the early return on a disabled backend
createMySQL_Unguarded ==
  LET mysqlConfig == getMySQLConfig
      labels == generateLabels("mysql", "database", getStack, DefaultVersion)
      secret == createSecret("mysql-secret", labels, "createMySQL")
  IN Built(
       { secret,
         [ Resource("StatefulSet", "mysql", "mysql", labels, labels,
                    "createMySQL", <<mysqlConfig.replicas>>)
             EXCEPT !.storage = <<mysqlConfig.storageSize>>, !.port = <<3306>> ],
         [ Resource("Service", "mysql-service", "mysql", labels, labels,
                  "createMySQL", <<>>)
             EXCEPT !.port = <<3306>> ] },
       {"statefulSet", "service", "secret"})

createMySQL ==
  LET mysqlConfig == getMySQLConfig
      labels == generateLabels("mysql", "database", getStack, DefaultVersion)
      secret == createSecret("mysql-secret", labels, "createMySQL")
  IN IF ~mysqlConfig.enabled
     THEN Built({secret}, {"secret"})
     ELSE Built(
       { secret,
         [ Resource("StatefulSet", "mysql", "mysql", labels, labels,
                    "createMySQL", <<mysqlConfig.replicas>>)
             EXCEPT !.storage = <<mysqlConfig.storageSize>>, !.port = <<3306>> ],
         [ Resource("Service", "mysql-service", "mysql", labels, labels,
                  "createMySQL", <<>>)
             EXCEPT !.port = <<3306>> ] },
       {"statefulSet", "service", "secret"})

createMariaDB ==
  LET mariadbConfig == getMariaDBConfig
      labels == generateLabels("mariadb", "database", getStack, DefaultVersion)
      secret == createSecret("mariadb-secret", labels, "createMariaDB")
  IN IF ~mariadbConfig.enabled
     THEN Built({secret}, {"secret"})
     ELSE Built(
       { secret,
         [ Resource("StatefulSet", "mariadb", "mariadb", labels, labels,
                    "createMariaDB", <<mariadbConfig.replicas>>)
             EXCEPT !.storage = <<mariadbConfig.storageSize>>, !.port = <<3306>> ],
         [ Resource("Service", "mariadb-service", "mariadb", labels, labels,
                  "createMariaDB", <<>>)
             EXCEPT !.port = <<3306>> ] },
       {"statefulSet", "service", "secret"})

createRedis ==
  LET redisConfig == getRedisConfig
      labels == generateLabels("redis", "cache", getStack, DefaultVersion)
      selectorLabels == generateSelectorLabels("redis", "cache")
      secret == IF redisConfig.hasPassword
                THEN {createSecret("redis-password", labels, "createRedis")}
                ELSE {}
  IN IF ~redisConfig.enabled
     THEN Built({}, {})
     ELSE Built(
       secret \cup
       { [ Resource("Deployment", "redis", "redis", labels, selectorLabels,
                  "createRedis", <<redisConfig.replicas>>)
             EXCEPT !.port = <<6379>> ],
         [ Resource("Service", "redis-service", "redis", labels, selectorLabels,
                  "createRedis", <<>>)
             EXCEPT !.port = <<6379>> ] },
       {"deployment", "service"} \cup (IF redisConfig.hasPassword THEN {"secret"} ELSE {}))

createMemcached ==
  LET memcachedConfig == getMemcachedConfig
      labels == generateLabels("memcached", "cache", getStack, DefaultVersion)
  IN IF ~memcachedConfig.enabled
     THEN Built({}, {})
     ELSE Built(
       { [ Resource("Deployment", "memcached", "memcached", labels, labels,
                  "createMemcached", <<memcachedConfig.replicas>>)
             EXCEPT !.port = <<11211>> ],
         [ Resource("Service", "memcached-service", "memcached", labels, labels,
                  "createMemcached", <<>>)
             EXCEPT !.port = <<11211>> ] },
       {"deployment", "service"})

\* an env entry with a literal value
Literal(v) == [from |-> "value", ref |-> v]

\* an env entry whose value is read from a field of the pod it runs in
FieldRef(fieldPath) == [from |-> "fieldRef", ref |-> fieldPath]

\* an env entry whose value is read from the named Secret
SecretKeyRef(secretName) == [from |-> "secretKeyRef", ref |-> secretName]

\* the kafka container's env with the node id taken from a number in the
\* configuration instead of from the pod
KafkaEnv_Counted ==
  ("KAFKA_NODE_ID" :> Literal(ToString(getKafkaConfig.replicas)))
    @@ ("KAFKA_PROCESS_ROLES" :> Literal("broker,controller"))
    @@ ("KAFKA_CONTROLLER_QUORUM_VOTERS" :> Literal("1@kafka-0.kafka-headless:9093"))

\* the entries of the controller quorum voter list
QuorumVoters == << [id |-> "1", host |-> "kafka-0.kafka-headless", port |-> "9093"] >>

\* an entry of the voter list as it is written, id@host:port
VoterEntry(v) == v.id \o "@" \o v.host \o ":" \o v.port

RECURSIVE VoterList(_)
\* the comma-separated voter list
VoterList(vs) ==
  IF vs = <<>> THEN ""
  ELSE IF Len(vs) = 1 THEN VoterEntry(vs[1])
  ELSE VoterEntry(vs[1]) \o "," \o VoterList(Tail(vs))

\* the env of the kafka container
KafkaEnv ==
  ("KAFKA_NODE_ID" :> FieldRef("metadata.name"))
    @@ ("KAFKA_PROCESS_ROLES" :> Literal("broker,controller"))
    @@ ("KAFKA_CONTROLLER_QUORUM_VOTERS" :> Literal(VoterList(QuorumVoters)))
    @@ ("KAFKA_LISTENERS" :> Literal("PLAINTEXT://:9092,CONTROLLER://:9093"))
    @@ ("KAFKA_ADVERTISED_LISTENERS" :> Literal("PLAINTEXT://kafka:9092"))
    @@ ("KAFKA_LISTENER_SECURITY_PROTOCOL_MAP"
          :> Literal("CONTROLLER:PLAINTEXT,PLAINTEXT:PLAINTEXT"))
    @@ ("KAFKA_CONTROLLER_LISTENER_NAMES" :> Literal("CONTROLLER"))
    @@ ("KAFKA_INTER_BROKER_LISTENER_NAME" :> Literal("PLAINTEXT"))
    @@ ("KAFKA_LOG_DIRS" :> Literal("/var/lib/kafka/data"))
    @@ ("KAFKA_NUM_NETWORK_THREADS" :> Literal("3"))
    @@ ("KAFKA_NUM_IO_THREADS" :> Literal("8"))
    @@ ("KAFKA_SOCKET_SEND_BUFFER_BYTES" :> Literal("102400"))
    @@ ("KAFKA_SOCKET_RECEIVE_BUFFER_BYTES" :> Literal("102400"))
    @@ ("KAFKA_SOCKET_REQUEST_MAX_BYTES" :> Literal("104857600"))
    @@ ("KAFKA_LOG_RETENTION_HOURS" :> Literal("168"))
    @@ ("KAFKA_LOG_SEGMENT_BYTES" :> Literal("1073741824"))
    @@ ("KAFKA_JMX_PORT" :> Literal("9999"))
    @@ ("KAFKA_JMX_HOSTNAME" :> Literal("localhost"))

createKafka ==
  LET kafkaConfig == getKafkaConfig
      labels == generateLabels("kafka", "messaging", getStack, DefaultVersion)
      selectorLabels == generateSelectorLabels("kafka", "messaging")
      sasl == kafkaConfig.hasSaslMechanism /\ kafkaConfig.hasUsername
                /\ kafkaConfig.hasPassword
      secret == IF sasl
                THEN {createSecret("kafka-credentials", labels, "createKafka")}
                ELSE {}
  IN IF ~kafkaConfig.enabled
     THEN Built({}, {})
     ELSE Built(
       secret \cup
       { [ Resource("StatefulSet", "kafka", "kafka", labels, selectorLabels,
                    "createKafka", <<kafkaConfig.replicas>>)
             EXCEPT !.env = KafkaEnv, !.storage = <<kafkaConfig.storageSize>> ],
         Resource("Service", "kafka-headless-service", "kafka-headless", labels,
                  selectorLabels, "createKafka", <<>>),
         Resource("Service", "kafka-service", "kafka", labels, selectorLabels,
                  "createKafka", <<>>) },
       {"statefulSet", "service", "headlessService"}
         \cup (IF sasl THEN {"secret"} ELSE {}))

createRabbitMQ ==
  LET rabbitmqConfig == getRabbitMQConfig
      labels == generateLabels("rabbitmq", "messaging", getStack, DefaultVersion)
      selectorLabels == generateSelectorLabels("rabbitmq", "messaging")
  IN IF ~rabbitmqConfig.enabled
     THEN Built({}, {})
     ELSE Built(
       { createSecret("rabbitmq-credentials", labels, "createRabbitMQ"),
         [ Resource("StatefulSet", "rabbitmq", "rabbitmq", labels, selectorLabels,
                    "createRabbitMQ", <<rabbitmqConfig.replicas>>)
             EXCEPT !.storage = <<"10Gi">>, !.port = <<5672>> ],
         [ Resource("Service", "rabbitmq-headless-service", "rabbitmq-headless", labels,
                  selectorLabels, "createRabbitMQ", <<>>)
             EXCEPT !.port = <<5672>> ],
         [ Resource("Service", "rabbitmq-service", "rabbitmq", labels, selectorLabels,
                  "createRabbitMQ", <<>>)
             EXCEPT !.port = <<5672>> ] },
       {"statefulSet", "service", "headlessService", "secret"})

createBeanstalkd ==
  LET beanstalkdConfig == getBeanstalkdConfig
      labels == generateLabels("beanstalkd", "queue", getStack, DefaultVersion)
  IN IF ~beanstalkdConfig.enabled
     THEN Built({}, {})
     ELSE Built(
       { [ Resource("Deployment", "beanstalkd", "beanstalkd", labels, labels,
                  "createBeanstalkd", <<beanstalkdConfig.replicas>>)
             EXCEPT !.port = <<11300>> ],
         [ Resource("Service", "beanstalkd-service", "beanstalkd", labels, labels,
                  "createBeanstalkd", <<>>)
             EXCEPT !.port = <<11300>> ] },
       {"deployment", "service"})

createMinio ==
  LET storageConfig == getStorageConfig
      labels == generateLabels("minio", "storage", getStack, DefaultVersion)
      selectorLabels == generateSelectorLabels("minio", "storage")
  IN IF storageConfig.error # NoError
     THEN Threw(storageConfig.error)
     ELSE IF storageConfig.type # "minio"
     THEN Built({}, {})
     ELSE Built(
       { createSecret("minio-credentials", labels, "createMinio"),
         [ Resource("StatefulSet", "minio", "minio", labels, selectorLabels,
                    "createMinio", <<storageConfig.replicas>>)
             EXCEPT !.storage = <<IF storageConfig.storageSize # ""
                                  THEN storageConfig.storageSize ELSE "20Gi">> ],
         Resource("Service", "minio-headless-service", "minio-headless", labels,
                  selectorLabels, "createMinio", <<>>),
         Resource("Service", "minio-service", "minio", labels, selectorLabels,
                  "createMinio", <<>>) },
       {"statefulSet", "service", "headlessService", "secret"})

createMeilisearch ==
  LET searchConfig == getSearchConfig
      labels == generateLabels("meilisearch", "search", getStack, DefaultVersion)
      selectorLabels == generateSelectorLabels("meilisearch", "search")
      secret == IF searchConfig.hasMasterKey
                THEN {createSecret("meilisearch-credentials", labels, "createMeilisearch")}
                ELSE {}
  IN IF searchConfig.error # NoError
     THEN Threw(searchConfig.error)
     ELSE IF searchConfig.type # "meilisearch"
     THEN Built({}, {})
     ELSE Built(
       secret \cup
       { Resource("Deployment", "meilisearch", "meilisearch", labels, selectorLabels,
                  "createMeilisearch", <<searchConfig.replicas>>),
         Resource("Service", "meilisearch-service", "meilisearch", labels,
                  selectorLabels, "createMeilisearch", <<>>) },
       {"deployment", "service"}
         \cup (IF searchConfig.hasMasterKey THEN {"secret"} ELSE {}))

createMailpit ==
  LET mailpitConfig == getMailpitConfig
      labels == generateLabels("mailpit", "email", getStack, DefaultVersion)
      selectorLabels == generateSelectorLabels("mailpit", "email")
  IN IF ~mailpitConfig.enabled
     THEN Built({}, {})
     ELSE Built(
       { Resource("Deployment", "mailpit", "mailpit", labels, selectorLabels,
                  "createMailpit", <<1>>),
         Resource("Service", "mailpit-service", "mailpit", labels, selectorLabels,
                  "createMailpit", <<>>) },
       {"deployment", "service"})

\* the env entries the three runtime-tier containers share
ApplicationEnv ==
  LET laravelConfig == getLaravelConfig
  IN ("APP_ENV" :> Literal(laravelConfig.environment))
       @@ ("APP_DEBUG" :> Literal(IF laravelConfig.debug THEN "true" ELSE "false"))
       @@ ("APP_NAME" :> Literal(laravelConfig.appName))
       @@ ("APP_URL" :> Literal(laravelConfig.appUrl))
       @@ ("APP_KEY" :> Literal(laravelConfig.appKey.value))

DatabaseEnv ==
  ("DB_CONNECTION" :> Literal("pgsql"))
    @@ ("DB_HOST" :> Literal("postgres"))
    @@ ("DB_PORT" :> Literal("5432"))
    @@ ("DB_DATABASE" :> Literal("laravel"))
    @@ ("DB_USERNAME" :> Literal("laravel"))
    @@ ("DB_PASSWORD" :> SecretKeyRef("postgres-credentials"))

CacheEnv ==
  ("CACHE_DRIVER" :> Literal("redis"))
    @@ ("REDIS_HOST" :> Literal("redis"))
    @@ ("REDIS_PORT" :> Literal("6379"))
    @@ ("REDIS_PASSWORD" :> SecretKeyRef("redis-password"))

QueueEnv ==
  ("QUEUE_CONNECTION" :> Literal("rabbitmq"))
    @@ ("RABBITMQ_HOST" :> Literal("rabbitmq"))
    @@ ("RABBITMQ_PORT" :> Literal("5672"))
    @@ ("RABBITMQ_USER" :> Literal("guest"))
    @@ ("RABBITMQ_PASSWORD" :> SecretKeyRef("rabbitmq-credentials"))

LaravelAppEnv ==
  ApplicationEnv @@ ("OCTANE_SERVER" :> Literal("swoole")) @@ DatabaseEnv
    @@ CacheEnv @@ QueueEnv @@ ("SESSION_DRIVER" :> Literal("redis"))

LaravelWorkerEnv == ApplicationEnv @@ DatabaseEnv @@ CacheEnv @@ QueueEnv

LaravelReverbEnv ==
  ApplicationEnv @@ CacheEnv
    @@ ("REVERB_APP_ID" :> Literal("laravel-app"))
    @@ ("REVERB_APP_KEY" :> Literal("laravel-key"))
    @@ ("REVERB_APP_SECRET" :> Literal("laravel-secret"))
    @@ ("REVERB_HOST" :> Literal("0.0.0.0"))
    @@ ("REVERB_PORT" :> Literal("8080"))
    @@ ("REVERB_SCHEME" :> Literal("http"))

\* the tail of the runtime-tier builders with the autoscaler left out
ScalingPolicies_NoHPA(prefix, builder, replicas, minReplicas, maxReplicas, labels, selectorLabels) ==
  IF getFeatureFlags.pdb
  THEN {createPDB(prefix \o "-pdb", selectorLabels, Max(1, replicas \div 2),
                  labels, builder)}
  ELSE {}

\* the HPA and PDB tail shared by the three runtime-tier builders
ScalingPolicies(prefix, builder, replicas, minReplicas, maxReplicas, labels, selectorLabels) ==
  LET featureFlags == getFeatureFlags
  IN (IF featureFlags.hpa
      THEN {createHPA(prefix \o "-hpa", prefix, minReplicas, maxReplicas, labels,
                      builder)}
      ELSE {})
     \cup
     (IF featureFlags.pdb
      THEN {createPDB(prefix \o "-pdb", selectorLabels, Max(1, replicas \div 2),
                      labels, builder)}
      ELSE {})

ScalingFields ==
  (IF getFeatureFlags.hpa THEN {"hpa"} ELSE {})
    \cup (IF getFeatureFlags.pdb THEN {"pdb"} ELSE {})

createLaravelApp ==
  LET laravelConfig == getLaravelConfig
      featureFlags == getFeatureFlags
      labels == generateLabels("laravel", "web", getStack, DefaultVersion)
      selectorLabels == generateSelectorLabels("laravel", "web")
  IN Built(
       { [ Resource("Deployment", "laravel-web", "laravel-web", labels, selectorLabels,
                    "createLaravelApp",
                    IF featureFlags.hpa THEN <<>> ELSE <<laravelConfig.webReplicas>>)
             EXCEPT !.env = LaravelAppEnv ],
         Resource("Service", "laravel-web-service", "laravel-web", labels,
                  selectorLabels, "createLaravelApp", <<>>) }
       \cup ScalingPolicies("laravel-web", "createLaravelApp", laravelConfig.webReplicas,
                            laravelConfig.webMinReplicas, laravelConfig.webMaxReplicas,
                            labels, selectorLabels),
       {"deployment", "service"} \cup ScalingFields)

\* createLaravelWorker building nothing when the queue is the external sqs
createLaravelWorker_ByQueue ==
  LET laravelConfig == getLaravelConfig
      labels == generateLabels("laravel", "worker", getStack, DefaultVersion)
      selectorLabels == generateSelectorLabels("laravel", "worker")
  IN IF getQueueConfig.engine = "sqs"
     THEN Built({}, {})
     ELSE Built(
       { Resource("Deployment", "laravel-worker", "laravel-worker", labels,
                  selectorLabels, "createLaravelWorker",
                  <<laravelConfig.workerReplicas>>) },
       {"deployment"})

createLaravelWorker ==
  LET laravelConfig == getLaravelConfig
      featureFlags == getFeatureFlags
      labels == generateLabels("laravel", "worker", getStack, DefaultVersion)
      selectorLabels == generateSelectorLabels("laravel", "worker")
  IN Built(
       { [ Resource("Deployment", "laravel-worker", "laravel-worker", labels,
                    selectorLabels, "createLaravelWorker",
                    IF featureFlags.hpa THEN <<>> ELSE <<laravelConfig.workerReplicas>>)
             EXCEPT !.env = LaravelWorkerEnv ] }
       \cup ScalingPolicies("laravel-worker", "createLaravelWorker",
                            laravelConfig.workerReplicas,
                            laravelConfig.workerMinReplicas,
                            laravelConfig.workerMaxReplicas, labels, selectorLabels),
       {"deployment"} \cup ScalingFields)

createLaravelReverb ==
  LET laravelConfig == getLaravelConfig
      featureFlags == getFeatureFlags
      labels == generateLabels("laravel", "reverb", getStack, DefaultVersion)
      selectorLabels == generateSelectorLabels("laravel", "reverb")
  IN Built(
       { [ Resource("Deployment", "laravel-reverb", "laravel-reverb", labels,
                    selectorLabels, "createLaravelReverb",
                    IF featureFlags.hpa THEN <<>> ELSE <<laravelConfig.reverbReplicas>>)
             EXCEPT !.env = LaravelReverbEnv ],
         Resource("Service", "laravel-reverb-service", "laravel-reverb", labels,
                  selectorLabels, "createLaravelReverb", <<>>) }
       \cup ScalingPolicies("laravel-reverb", "createLaravelReverb",
                            laravelConfig.reverbReplicas,
                            laravelConfig.reverbMinReplicas,
                            laravelConfig.reverbMaxReplicas, labels, selectorLabels),
       {"deployment", "service"} \cup ScalingFields)

createIngress ==
  LET ingressConfig == getIngressConfig
      labels == generateLabels("laravel", "ingress", getStack, DefaultVersion)
  IN IF ~ingressConfig.enabled
     THEN Built({}, {})
     ELSE Built(
       { Resource("Ingress", "laravel-ingress", "laravel-ingress", labels, NoLabels,
                  "createIngress", <<>>) },
       {"ingress"})

\* one Deployment and one Service per enabled observability component
ObservabilityPair(name) ==
  LET labels == generateLabels(name, "monitoring", getStack, DefaultVersion)
      selector == generateSelectorLabels(name, "monitoring")
  IN { Resource("Deployment", name, name, labels, selector, "createObservability", <<1>>),
       Resource("Service", name \o "-service", name, labels, selector,
                "createObservability", <<>>) }

ObservabilityNames ==
  LET observabilityConfig == getObservabilityConfig
  IN (IF observabilityConfig.prometheus THEN {"prometheus"} ELSE {})
     \cup (IF observabilityConfig.grafana THEN {"grafana"} ELSE {})
     \cup (IF observabilityConfig.loki THEN {"loki"} ELSE {})
     \cup (IF observabilityConfig.tempo THEN {"tempo"} ELSE {})
     \cup (IF observabilityConfig.alertmanager THEN {"alertmanager"} ELSE {})

createObservability ==
  Built(UNION {ObservabilityPair(n) : n \in ObservabilityNames},
        UNION {{n \o "Deployment", n \o "Service"} : n \in ObservabilityNames})

\* createArgoCD(argocdConfig, labels): labels are the namespace's labels with
\* name and component replaced
createArgoCD(labels) ==
  LET config == getArgoCDConfig
      argocdLabels == (APP_NAME :> "argocd") @@ (APP_COMPONENT :> "gitops") @@ labels
  IN IF ~config.enabled
     THEN Built({}, {})
     ELSE Built(
       { Resource("Namespace", "argocd-namespace", "argocd", argocdLabels, NoLabels,
                  "createArgoCD", <<>>),
         Resource("Release", "argocd", "argocd", NoLabels, NoLabels,
                  "createArgoCD", <<>>) }
       \cup (IF ~config.enableIngress
             THEN {Resource("Ingress", "argocd-ingress", "argocd-server", argocdLabels,
                            NoLabels, "createArgoCD", <<>>)}
             ELSE {}),
       {"namespace", "release"}
         \cup (IF ~config.enableIngress THEN {"ingress"} ELSE {}))

(***************************************************************************)
(* The pods of a StatefulSet: one per ordinal, named <set>-<ordinal>, each *)
(* running the set's template with its field references resolved           *)
(***************************************************************************)

Ordinals(statefulSet) ==
  IF statefulSet.replicas = <<>> THEN {} ELSE 0 .. (statefulSet.replicas[1] - 1)

PodName(statefulSet, ordinal) == statefulSet.name \o "-" \o ToString(ordinal)

EnvValue(entry, podName) ==
  IF entry.from = "fieldRef" /\ entry.ref = "metadata.name" THEN podName ELSE entry.ref

Pod(statefulSet, ordinal) ==
  [ ordinal |-> ordinal,
    name |-> PodName(statefulSet, ordinal),
    env |-> [n \in DOMAIN statefulSet.env |->
               EnvValue(statefulSet.env[n], PodName(statefulSet, ordinal))] ]

Pods(statefulSet) == {Pod(statefulSet, i) : i \in Ordinals(statefulSet)}

(***************************************************************************)
(* The composition script (index)                                          *)
(***************************************************************************)

\* the script's local variables that hold builder results
HandleNames ==
  { "postgres", "mysql", "mariadb", "redis", "memcached", "kafka", "rabbitmq",
    "beanstalkd", "minio", "meilisearch", "mailpit", "laravelApp", "laravelWorker",
    "laravelReverb", "ingress", "observability", "argocd" }

Undefined == [defined |-> FALSE, fields |-> {}]

\* the result object of the named builder
RunBuilder(b) ==
  CASE b = "createPostgres" -> createPostgres
    [] b = "createMySQL" -> createMySQL
    [] b = "createMariaDB" -> createMariaDB
    [] b = "createRedis" -> createRedis
    [] b = "createMemcached" -> createMemcached
    [] b = "createKafka" -> createKafka
    [] b = "createRabbitMQ" -> createRabbitMQ
    [] b = "createBeanstalkd" -> createBeanstalkd
    [] b = "createMinio" -> createMinio
    [] b = "createMeilisearch" -> createMeilisearch
    [] b = "createMailpit" -> createMailpit
    [] b = "createLaravelApp" -> createLaravelApp
    [] b = "createLaravelWorker" -> createLaravelWorker
    [] b = "createLaravelReverb" -> createLaravelReverb
    [] b = "createIngress" -> createIngress
    [] b = "createObservability" -> createObservability
    [] OTHER -> Built({}, {})

\* "none": no case of the switch matches, nothing is called
NoCall == [builder |-> "none", handle |-> "none"]

Call(b, h) == [builder |-> b, handle |-> h]

\* switch (databaseConfig.engine)
DatabaseSwitch(engine) ==
  CASE engine = "postgresql" -> Call("createPostgres", "postgres")
    [] engine = "mysql" -> Call("createMySQL", "mysql")
    [] engine = "mariadb" -> Call("createMariaDB", "mariadb")
    [] OTHER -> NoCall

\* switch (cacheConfig.engine)
CacheSwitch(engine) ==
  CASE engine = "redis" -> Call("createRedis", "redis")
    [] engine = "memcached" -> Call("createMemcached", "memcached")
    [] engine = "valkey" -> Call("createRedis", "redis")
    [] OTHER -> NoCall

\* the queue switch with the redis case calling createRedis unconditionally
QueueSwitch_Unguarded(engine, redisDefined) ==
  CASE engine = "kafka" -> Call("createKafka", "kafka")
    [] engine = "rabbitmq" -> Call("createRabbitMQ", "rabbitmq")
    [] engine = "beanstalkd" -> Call("createBeanstalkd", "beanstalkd")
    [] engine = "redis" -> Call("createRedis", "redis")
    [] OTHER -> NoCall

\* switch (queueConfig.engine); redisDefined is the truthiness of `redis`
QueueSwitch(engine, redisDefined) ==
  CASE engine = "kafka" -> Call("createKafka", "kafka")
    [] engine = "rabbitmq" -> Call("createRabbitMQ", "rabbitmq")
    [] engine = "beanstalkd" -> Call("createBeanstalkd", "beanstalkd")
    [] engine = "redis" /\ ~redisDefined -> Call("createRedis", "redis")
    [] OTHER -> NoCall

\* run the selected call: register its resources, assign its handle
Perform(call, next) ==
  IF call = NoCall
  THEN /\ pc' = next
       /\ UNCHANGED <<resources, invoked, handles, error>>
  ELSE LET built == RunBuilder(call.builder)
       IN IF built.error # NoError
          THEN /\ pc' = "failed"
               /\ error' = built.error
               /\ invoked' = Append(invoked, call.builder)
               /\ UNCHANGED <<resources, handles>>
          ELSE /\ pc' = next
               /\ resources' = resources \cup built.resources
               /\ invoked' = Append(invoked, call.builder)
               /\ handles' = [handles EXCEPT ![call.handle] =
                                [defined |-> TRUE, fields |-> built.fields]]
               /\ UNCHANGED error

\* lines 40-56: new Config(), the namespace
Start ==
  /\ pc = "start"
  /\ resources' = resources \cup
       {createNamespace(getNamespace,
          generateLabels("laravel", "infrastructure", getStack, DefaultVersion))}
  /\ pc' = "database"
  /\ UNCHANGED <<previous, stack, cfg, invoked, handles, error, outputs, summary, resolved>>

\* lines 64-81
Database ==
  /\ pc = "database"
  /\ Perform(DatabaseSwitch(getDatabaseConfig.engine), "cache")
  /\ UNCHANGED <<previous, stack, cfg, outputs, summary, resolved>>

\* lines 83-101
Cache ==
  /\ pc = "cache"
  /\ Perform(CacheSwitch(getCacheConfig.engine), "queue")
  /\ UNCHANGED <<previous, stack, cfg, outputs, summary, resolved>>

\* lines 103-130
Queue ==
  /\ pc = "queue"
  /\ Perform(QueueSwitch(getQueueConfig.engine, handles["redis"].defined), "storage")
  /\ UNCHANGED <<previous, stack, cfg, outputs, summary, resolved>>

\* lines 132-139: getStorageConfig() may throw before createMinio is reached
Storage ==
  /\ pc = "storage"
  /\ LET storageConfig == getStorageConfig
     IN IF storageConfig.error # NoError
        THEN /\ pc' = "failed"
             /\ error' = storageConfig.error
             /\ UNCHANGED <<resources, invoked, handles>>
        ELSE Perform(IF storageConfig.type = "minio"
                     THEN Call("createMinio", "minio") ELSE NoCall, "search")
  /\ UNCHANGED <<previous, stack, cfg, outputs, summary, resolved>>

\* lines 141-149
Search ==
  /\ pc = "search"
  /\ LET searchConfig == getSearchConfig
     IN IF searchConfig.error # NoError
        THEN /\ pc' = "failed"
             /\ error' = searchConfig.error
             /\ UNCHANGED <<resources, invoked, handles>>
        ELSE Perform(IF searchConfig.type = "meilisearch"
                     THEN Call("createMeilisearch", "meilisearch") ELSE NoCall,
                     "mailpit")
  /\ UNCHANGED <<previous, stack, cfg, outputs, summary, resolved>>

\* lines 151-156
Mailpit ==
  /\ pc = "mailpit"
  /\ Perform(IF getMailpitConfig.enabled
             THEN Call("createMailpit", "mailpit") ELSE NoCall, "laravelApp")
  /\ UNCHANGED <<previous, stack, cfg, outputs, summary, resolved>>

\* line 169
LaravelApp ==
  /\ pc = "laravelApp"
  /\ Perform(Call("createLaravelApp", "laravelApp"), "laravelWorker")
  /\ UNCHANGED <<previous, stack, cfg, outputs, summary, resolved>>

\* line 172
LaravelWorker ==
  /\ pc = "laravelWorker"
  /\ Perform(Call("createLaravelWorker", "laravelWorker"), "laravelReverb")
  /\ UNCHANGED <<previous, stack, cfg, outputs, summary, resolved>>

\* line 175
LaravelReverb ==
  /\ pc = "laravelReverb"
  /\ Perform(Call("createLaravelReverb", "laravelReverb"), "ingress")
  /\ UNCHANGED <<previous, stack, cfg, outputs, summary, resolved>>

\* line 184
Ingress ==
  /\ pc = "ingress"
  /\ Perform(Call("createIngress", "ingress"), "observability")
  /\ UNCHANGED <<previous, stack, cfg, outputs, summary, resolved>>

\* line 193
Observability ==
  /\ pc = "observability"
  /\ Perform(Call("createObservability", "observability"), "argocd")
  /\ UNCHANGED <<previous, stack, cfg, outputs, summary, resolved>>

\* lines 202-207: createArgoCD receives the namespace's labels
ArgoCD ==
  /\ pc = "argocd"
  /\ LET built == createArgoCD(
                    generateLabels("laravel", "infrastructure", getStack, DefaultVersion))
     IN /\ resources' = resources \cup built.resources
        /\ invoked' = Append(invoked, "createArgoCD")
        /\ handles' = [handles EXCEPT !["argocd"] =
                         [defined |-> TRUE, fields |-> built.fields]]
  /\ pc' = "exports"
  /\ UNCHANGED <<previous, stack, cfg, error, outputs, summary, resolved>>

\* handle?.field is set
HasField(h, f) == handles[h].defined /\ f \in handles[h].fields

\* lines 214-257: export const <key> = <handle>?.<field>?.metadata.name
ExportTable ==
  { [key |-> "laravelWebService", handle |-> "laravelApp", field |-> "service",
     value |-> "laravel-web"],
    [key |-> "laravelWebDeployment", handle |-> "laravelApp", field |-> "deployment",
     value |-> "laravel-web"],
    [key |-> "laravelWorkerDeployment", handle |-> "laravelWorker",
     field |-> "deployment", value |-> "laravel-worker"],
    [key |-> "laravelReverbService", handle |-> "laravelReverb", field |-> "service",
     value |-> "laravel-reverb"],
    [key |-> "postgresService", handle |-> "postgres", field |-> "service",
     value |-> "postgres"],
    [key |-> "redisService", handle |-> "redis", field |-> "service",
     value |-> "redis"],
    [key |-> "rabbitmqService", handle |-> "rabbitmq", field |-> "service",
     value |-> "rabbitmq"],
    [key |-> "minioService", handle |-> "minio", field |-> "service",
     value |-> "minio"],
    [key |-> "meilisearchService", handle |-> "meilisearch", field |-> "service",
     value |-> "meilisearch"],
    [key |-> "mailpitService", handle |-> "mailpit", field |-> "service",
     value |-> "mailpit"],
    [key |-> "mysqlService", handle |-> "mysql", field |-> "service",
     value |-> "mysql"],
    [key |-> "mariadbService", handle |-> "mariadb", field |-> "service",
     value |-> "mariadb"],
    [key |-> "memcachedService", handle |-> "memcached", field |-> "service",
     value |-> "memcached"],
    [key |-> "kafkaService", handle |-> "kafka", field |-> "service",
     value |-> "kafka"],
    [key |-> "beanstalkdService", handle |-> "beanstalkd", field |-> "service",
     value |-> "beanstalkd"],
    [key |-> "ingressHost", handle |-> "ingress", field |-> "ingress",
     value |-> getIngressConfig.host],
    [key |-> "prometheusService", handle |-> "observability",
     field |-> "prometheusService", value |-> "prometheus"],
    [key |-> "grafanaService", handle |-> "observability",
     field |-> "grafanaService", value |-> "grafana"],
    [key |-> "argocdNamespace", handle |-> "argocd", field |-> "namespace",
     value |-> "argocd"],
    [key |-> "argocdRelease", handle |-> "argocd", field |-> "release",
     value |-> "argocd"] }

\* exports that do not read a handle
PlainExports ==
  ("namespaceName" :> getNamespace) @@ ("stackName" :> stack)
    @@ ("appUrl" :> getLaravelConfig.appUrl)
    @@ (IF getArgoCDConfig.enabled
        THEN ("argocdHost" :> getArgoCDConfig.host) ELSE NoLabels)

\* an export whose value is undefined publishes nothing
ExportedEntries == {e \in ExportTable : HasField(e.handle, e.field)}

Exports ==
  /\ pc = "exports"
  /\ outputs' = [k \in {e.key : e \in ExportedEntries} |->
                   (CHOOSE e \in ExportedEntries : e.key = k).value]
                @@ PlainExports
  /\ pc' = "summary"
  /\ UNCHANGED <<previous, stack, cfg, resources, invoked, handles, error, summary, resolved>>

\* lines 263-294: the check mark of each backend line
SummaryOf ==
  [ database |-> HasField("postgres", "statefulSet") \/ HasField("mysql", "statefulSet")
                   \/ HasField("mariadb", "statefulSet"),
    cache |-> HasField("redis", "deployment") \/ HasField("memcached", "deployment"),
    queue |-> HasField("kafka", "statefulSet") \/ HasField("rabbitmq", "statefulSet")
                \/ HasField("beanstalkd", "deployment"),
    storage |-> HasField("minio", "statefulSet"),
    search |-> HasField("meilisearch", "deployment") ]

NoSummary ==
  [ database |-> FALSE, cache |-> FALSE, queue |-> FALSE, storage |-> FALSE,
    search |-> FALSE ]

Summary ==
  /\ pc = "summary"
  /\ summary' = SummaryOf
  /\ pc' = "done"
  /\ UNCHANGED <<previous, stack, cfg, resources, invoked, handles, error, outputs, resolved>>

(***************************************************************************)
(* Inputs                                                                  *)
(***************************************************************************)

\* stack names: one per classification
Stacks == {"local", "staging", "production"}

DatabaseEngine == {"postgresql", "mysql", "mariadb"}

CacheEngine == {"redis", "memcached", "valkey"}

QueueEngine == {"rabbitmq", "kafka", "beanstalkd", "redis", "sqs"}

\* an identifier outside every enumeration
UnknownEngine == "oracle"

BooleanKeys ==
  { "postgres:enabled", "mysql:enabled", "mariadb:enabled", "redis:enabled",
    "memcached:enabled", "kafka:enabled", "rabbitmq:enabled", "beanstalkd:enabled",
    "minio:enabled", "meilisearch:enabled", "mailpit:enabled", "ingress:enabled",
    "observability:prometheus", "observability:grafana", "observability:loki",
    "observability:tempo", "observability:alertmanager", "argocd:enabled",
    "argocd:enableIngress", "features:hpa", "features:pdb",
    "features:networkPolicies", "features:podSecurityPolicies",
    "features:resourceQuotas", "laravel:debug", "redis:tls" }

NumberKeys ==
  { "laravel:webReplicas", "laravel:webMaxReplicas", "laravel:workerMaxReplicas",
    "laravel:reverbMaxReplicas", "postgres:replicas", "postgres:port",
    "redis:replicas", "redis:port" }

\* the lower bounds of the autoscalers
MinReplicasKeys ==
  { "laravel:webMinReplicas", "laravel:workerMinReplicas",
    "laravel:reverbMinReplicas" }

\* the legal values of a key's type
KeyValues(k) ==
  CASE k \in BooleanKeys -> {"true", "false"}
    [] k \in NumberKeys -> {"0", "3"}
    [] k \in MinReplicasKeys -> {"0", "5"}
    [] k = "kafka:replicas" -> {"3", "5"}
    [] k = "database:engine" -> DatabaseEngine \cup {UnknownEngine}
    [] k = "cache:engine" -> CacheEngine \cup {UnknownEngine}
    [] k = "queue:engine" -> QueueEngine \cup {UnknownEngine}
    [] k = "s3:bucket" -> {"assets"}
    [] k = "elasticsearch:host" -> {"http://es:9200"}
    [] k = "redis:password" -> {"hunter2"}
    [] OTHER -> {"x"}

\* every store that overrides at most n of the keys
RECURSIVE Stores(_, _)
Stores(keys, n) ==
  IF n = 0
  THEN {NoOverrides}
  ELSE LET smaller == Stores(keys, n - 1)
       IN smaller \cup
          { f @@ (k :> v) : <<f, k, v>> \in
              { t \in smaller \X keys \X UNION {KeyValues(k) : k \in keys} :
                  t[2] \notin DOMAIN t[1] /\ t[3] \in KeyValues(t[2]) } }

\* the keys the composition script is run over
ComposeKeys ==
  { "database:engine", "cache:engine", "queue:engine",
    "postgres:enabled", "mysql:enabled", "mariadb:enabled", "redis:enabled",
    "memcached:enabled", "kafka:enabled", "rabbitmq:enabled", "beanstalkd:enabled",
    "minio:enabled", "meilisearch:enabled", "s3:bucket", "elasticsearch:host",
    "redis:password", "ingress:enabled", "features:hpa", "features:pdb" }

ComposeStores == Stores(ComposeKeys, MaxOverrides)

NoResolved == [getter |-> "none"]

\* no earlier run of the program on this stack
NoPrevious == [run |-> FALSE]

Init ==
  /\ stack \in Stacks
  /\ cfg \in ComposeStores
  /\ pc = "start"
  /\ resources = {}
  /\ invoked = <<>>
  /\ handles = [h \in HandleNames |-> Undefined]
  /\ error = NoError
  /\ outputs = NoLabels
  /\ summary = NoSummary
  /\ resolved = NoResolved
  /\ previous = NoPrevious

Next ==
  \/ Start
  \/ Database
  \/ Cache
  \/ Queue
  \/ Storage
  \/ Search
  \/ Mailpit
  \/ LaravelApp
  \/ LaravelWorker
  \/ LaravelReverb
  \/ Ingress
  \/ Observability
  \/ ArgoCD
  \/ Exports
  \/ Summary

Spec == Init /\ [][Next]_vars

(***************************************************************************)
(* Config resolution on its own: any public getter of Config, called on    *)
(* any store                                                               *)
(***************************************************************************)

Getters ==
  { "getLaravelConfig", "getPostgresConfig", "getRedisConfig", "getDatabaseConfig",
    "getStorageConfig", "getSearchConfig", "getFeatureFlags", "getRabbitMQConfig",
    "getCacheConfig", "getMySQLConfig", "getMariaDBConfig" }

\* what the call returns, or the error it throws
GetterResult(g) ==
  CASE g = "getLaravelConfig" -> [value |-> getLaravelConfig, error |-> NoError]
    [] g = "getPostgresConfig" -> [value |-> getPostgresConfig, error |-> NoError]
    [] g = "getRedisConfig" -> [value |-> getRedisConfig, error |-> NoError]
    [] g = "getDatabaseConfig" -> [value |-> getDatabaseConfig, error |-> NoError]
    [] g = "getStorageConfig" ->
         [value |-> getStorageConfig, error |-> getStorageConfig.error]
    [] g = "getSearchConfig" ->
         [value |-> getSearchConfig, error |-> getSearchConfig.error]
    [] g = "getFeatureFlags" -> [value |-> getFeatureFlags, error |-> NoError]
    [] g = "getRabbitMQConfig" -> [value |-> getRabbitMQConfig, error |-> NoError]
    [] g = "getCacheConfig" -> [value |-> getCacheConfig, error |-> NoError]
    [] g = "getMySQLConfig" -> [value |-> getMySQLConfig, error |-> NoError]
    [] g = "getMariaDBConfig" -> [value |-> getMariaDBConfig, error |-> NoError]

CallGetter(g) ==
  /\ pc = "start"
  /\ resolved.getter = "none"
  /\ resolved' = [getter |-> g, value |-> GetterResult(g).value]
  /\ error' = GetterResult(g).error
  /\ UNCHANGED <<previous, stack, cfg, pc, resources, invoked, handles, outputs, summary>>

\* the keys the getters are run over
ResolveKeys ==
  { "features:hpa", "features:pdb", "features:networkPolicies",
    "features:podSecurityPolicies", "features:resourceQuotas",
    "laravel:debug", "laravel:webReplicas", "postgres:enabled", "postgres:replicas",
    "redis:enabled", "redis:tls", "database:engine", "minio:enabled", "s3:bucket",
    "meilisearch:enabled", "elasticsearch:host", "minio:accessKey",
    "rabbitmq:password", "cache:engine", "redis:replicas", "mysql:enabled",
    "mariadb:enabled" }

ResolveStores == Stores(ResolveKeys, MaxOverrides)

InitResolve ==
  /\ stack \in Stacks
  /\ cfg \in ResolveStores
  /\ pc = "start"
  /\ resources = {}
  /\ invoked = <<>>
  /\ handles = [h \in HandleNames |-> Undefined]
  /\ error = NoError
  /\ outputs = NoLabels
  /\ summary = NoSummary
  /\ resolved = NoResolved
  /\ previous = NoPrevious

NextResolve == \E g \in Getters : CallGetter(g)

SpecResolve == InitResolve /\ [][NextResolve]_vars

\* the script variable a builder's result is assigned to
HandleOf(builder) ==
  CASE builder = "createPostgres" -> "postgres"
    [] builder = "createMySQL" -> "mysql"
    [] builder = "createMariaDB" -> "mariadb"
    [] builder = "createRedis" -> "redis"
    [] builder = "createMemcached" -> "memcached"
    [] builder = "createKafka" -> "kafka"
    [] builder = "createRabbitMQ" -> "rabbitmq"
    [] builder = "createBeanstalkd" -> "beanstalkd"
    [] builder = "createMinio" -> "minio"
    [] builder = "createMeilisearch" -> "meilisearch"
    [] builder = "createMailpit" -> "mailpit"
    [] builder = "createLaravelApp" -> "laravelApp"
    [] builder = "createLaravelWorker" -> "laravelWorker"
    [] builder = "createLaravelReverb" -> "laravelReverb"
    [] builder = "createIngress" -> "ingress"
    [] builder = "createObservability" -> "observability"
    [] builder = "createArgoCD" -> "argocd"

(***************************************************************************)
(* A builder on its own: any exported builder of components, called on any *)
(* store                                                                   *)
(***************************************************************************)

Builders ==
  { "createPostgres", "createMySQL", "createMariaDB", "createRedis",
    "createMemcached", "createKafka", "createRabbitMQ", "createBeanstalkd",
    "createMinio", "createMeilisearch", "createMailpit", "createLaravelApp",
    "createLaravelWorker", "createLaravelReverb", "createIngress",
    "createObservability" }

CallBuilder(b) ==
  /\ pc = "start"
  /\ invoked = <<>>
  /\ LET built == RunBuilder(b)
     IN /\ resources' = built.resources
        /\ error' = built.error
        /\ handles' = IF built.error = NoError
                      THEN [handles EXCEPT ![HandleOf(b)] =
                              [defined |-> TRUE, fields |-> built.fields]]
                      ELSE handles
  /\ invoked' = <<b>>
  /\ pc' = "built"
  /\ UNCHANGED <<previous, stack, cfg, outputs, summary, resolved>>

NextBuild == \E b \in Builders : CallBuilder(b)

SpecBuild == Init /\ [][NextBuild]_vars

(***************************************************************************)
(* The program run a second time on the same stack, after an edit of the   *)
(* configuration store                                                     *)
(***************************************************************************)

\* what the finished run leaves behind
Snapshot ==
  [ run |-> TRUE, cfg |-> cfg, pc |-> pc, resources |-> resources,
    invoked |-> invoked, handles |-> handles, error |-> error,
    outputs |-> outputs, summary |-> summary ]

Rerun(newcfg) ==
  /\ pc \in {"done", "failed"}
  /\ ~previous.run
  /\ previous' = Snapshot
  /\ cfg' = newcfg
  /\ pc' = "start"
  /\ resources' = {}
  /\ invoked' = <<>>
  /\ handles' = [h \in HandleNames |-> Undefined]
  /\ error' = NoError
  /\ outputs' = NoLabels
  /\ summary' = NoSummary
  /\ UNCHANGED <<stack, resolved>>

\* kafka:replicas set to n, then the program run again
Rescale(n) == Rerun(("kafka:replicas" :> n) @@ cfg)

\* the keys the kafka broker set is run over
ScaleKeys ==
  { "queue:engine", "kafka:enabled", "kafka:replicas", "kafka:storageSize",
    "kafka:saslMechanism", "kafka:username", "kafka:password" }

ScaleStores == Stores(ScaleKeys, MaxOverrides)

InitScale ==
  /\ stack \in Stacks
  /\ cfg \in ScaleStores
  /\ pc = "start"
  /\ resources = {}
  /\ invoked = <<>>
  /\ handles = [h \in HandleNames |-> Undefined]
  /\ error = NoError
  /\ outputs = NoLabels
  /\ summary = NoSummary
  /\ resolved = NoResolved
  /\ previous = NoPrevious

NextScale ==
  \/ Next
  \/ \E n \in KeyValues("kafka:replicas") : Rescale(n)

SpecScale == InitScale /\ [][NextScale]_vars

\* the keys that choose a backend of a capability
EngineKeys ==
  {"database:engine", "cache:engine", "queue:engine", "minio:enabled",
   "meilisearch:enabled"}

\* the backends a key can choose
EngineChoices(k) ==
  CASE k = "database:engine" -> DatabaseEngine
    [] k = "cache:engine" -> CacheEngine
    [] k = "queue:engine" -> QueueEngine
    [] OTHER -> {"true", "false"}

\* one backend choice changed after a complete pass, then the program run
\* again
Reselect(k, v) ==
  /\ pc = "done"
  /\ IF Has(k) THEN Get(k) # v ELSE TRUE
  /\ Rerun((k :> v) @@ cfg)

\* the keys the backend choices and the fixed-role builders are run over
ReselectKeys ==
  EngineKeys \cup
  {"s3:bucket", "elasticsearch:host", "ingress:enabled"}

ReselectStores == Stores(ReselectKeys, MaxOverrides)

InitReselect ==
  /\ stack \in Stacks
  /\ cfg \in ReselectStores
  /\ pc = "start"
  /\ resources = {}
  /\ invoked = <<>>
  /\ handles = [h \in HandleNames |-> Undefined]
  /\ error = NoError
  /\ outputs = NoLabels
  /\ summary = NoSummary
  /\ resolved = NoResolved
  /\ previous = NoPrevious

NextReselect ==
  \/ Next
  \/ \E k \in EngineKeys : \E v \in EngineChoices(k) : Reselect(k, v)

SpecReselect == InitReselect /\ [][NextReselect]_vars

\* the program run again on the unchanged store
Repeat == Rerun(cfg)

\* the keys the repeated pass is run over
TwiceKeys ==
  { "database:engine", "cache:engine", "queue:engine", "minio:enabled",
    "s3:bucket", "redis:password", "ingress:enabled", "features:hpa" }

TwiceStores == Stores(TwiceKeys, MaxOverrides)

InitTwice ==
  /\ stack \in Stacks
  /\ cfg \in TwiceStores
  /\ pc = "start"
  /\ resources = {}
  /\ invoked = <<>>
  /\ handles = [h \in HandleNames |-> Undefined]
  /\ error = NoError
  /\ outputs = NoLabels
  /\ summary = NoSummary
  /\ resolved = NoResolved
  /\ previous = NoPrevious

NextTwice ==
  \/ Next
  \/ Repeat

SpecTwice == InitTwice /\ [][NextTwice]_vars

(***************************************************************************)
(* The composition pass over the sizing of the runtime tier and the ports  *)
(* of the backends                                                         *)
(***************************************************************************)

SizingKeys ==
  MinReplicasKeys \cup
  { "laravel:webMaxReplicas", "laravel:workerMaxReplicas",
    "laravel:reverbMaxReplicas", "laravel:webReplicas", "features:hpa",
    "features:pdb", "postgres:port", "redis:port" }

SizingStores == Stores(SizingKeys, MaxOverrides)

InitSizing ==
  /\ stack \in Stacks
  /\ cfg \in SizingStores
  /\ pc = "start"
  /\ resources = {}
  /\ invoked = <<>>
  /\ handles = [h \in HandleNames |-> Undefined]
  /\ error = NoError
  /\ outputs = NoLabels
  /\ summary = NoSummary
  /\ resolved = NoResolved
  /\ previous = NoPrevious

SpecSizing == InitSizing /\ [][Next]_vars

(***************************************************************************)
(* The label utilities on their own, called on any arguments               *)
(***************************************************************************)

LabelNames == {"laravel", "postgres", "redis", ""}

LabelComponents == {"web", "database", "cache", ""}

LabelEnvironments == Stacks \cup {""}

LabelVersions == {"latest", "1.0.0", ""}

GenerateLabels(name, component, environment, version) ==
  /\ pc = "start"
  /\ resolved.getter = "none"
  /\ resolved' = [ getter |-> "generateLabels",
                   value |-> [ name |-> name, component |-> component,
                               labels |-> generateLabels(name, component,
                                                         environment, version),
                               selector |-> generateSelectorLabels(name, component) ] ]
  /\ UNCHANGED <<previous, stack, cfg, pc, resources, invoked, handles, error,
                 outputs, summary>>

InitLabels ==
  /\ stack \in Stacks
  /\ cfg = NoOverrides
  /\ pc = "start"
  /\ resources = {}
  /\ invoked = <<>>
  /\ handles = [h \in HandleNames |-> Undefined]
  /\ error = NoError
  /\ outputs = NoLabels
  /\ summary = NoSummary
  /\ resolved = NoResolved
  /\ previous = NoPrevious

NextLabels ==
  \E name \in LabelNames, component \in LabelComponents,
     environment \in LabelEnvironments, version \in LabelVersions :
    GenerateLabels(name, component, environment, version)

SpecLabels == InitLabels /\ [][NextLabels]_vars

(***************************************************************************)
(* Properties                                                              *)
(***************************************************************************)

\* the identity label a builder gives to an engine's resources
EngineLabel(engine) == IF engine = "postgresql" THEN "postgres" ELSE engine

Capabilities == {"database", "cache", "queue"}

Enumeration(cap) ==
  CASE cap = "database" -> DatabaseEngine
    [] cap = "cache" -> CacheEngine
    [] cap = "queue" -> QueueEngine

Selected(cap) ==
  CASE cap = "database" -> getDatabaseConfig.engine
    [] cap = "cache" -> getCacheConfig.engine
    [] cap = "queue" -> getQueueConfig.engine

\* the component labels under which a capability's resources are recorded
ComponentsOf(cap) ==
  CASE cap = "database" -> {"database"}
    [] cap = "cache" -> {"cache"}
    [] cap = "queue" -> {"messaging", "queue"}

RecordedUnder(r, cap) ==
  /\ APP_COMPONENT \in DOMAIN r.labels
  /\ r.labels[APP_COMPONENT] \in ComponentsOf(cap)

\* C1: a pass that selects engine X for a capability holds no resource recorded
\* for that capability whose identity label names another engine of the
\* capability's enumeration
C1_NoSiblingEngine ==
  \A cap \in Capabilities : \A r \in resources :
    RecordedUnder(r, cap) =>
      r.labels[APP_NAME] \notin
        {EngineLabel(e) : e \in Enumeration(cap) \ {Selected(cap)}}

FeatureKeys ==
  { "features:hpa", "features:pdb", "features:networkPolicies",
    "features:podSecurityPolicies", "features:resourceQuotas" }

\* the documented default of the four policy flags: off under local, on under
\* staging and production
DocumentedDefault == stack # "local"

\* C2: with no feature-flag override, hpa, pdb, networkPolicies and
\* resourceQuotas resolve to the documented default of the classification
C2_FlagDefaults ==
  (resolved.getter = "getFeatureFlags" /\ FeatureKeys \cap DOMAIN cfg = {}) =>
    /\ resolved.value.hpa = DocumentedDefault
    /\ resolved.value.pdb = DocumentedDefault
    /\ resolved.value.networkPolicies = DocumentedDefault
    /\ resolved.value.resourceQuotas = DocumentedDefault

IsSubsetMap(sel, labels) ==
  /\ DOMAIN sel \subseteq DOMAIN labels
  /\ DOMAIN sel # DOMAIN labels
  /\ \A k \in DOMAIN sel : sel[k] = labels[k]

\* C3: the selector of every workload and Service is a proper subset of its
\* labels and holds neither the environment nor the version label
C3_SelectorSubset ==
  \A r \in resources :
    r.kind \in {"Deployment", "StatefulSet", "Service"} =>
      /\ IsSubsetMap(r.selector, r.labels)
      /\ ENVIRONMENT \notin DOMAIN r.selector
      /\ APP_VERSION \notin DOMAIN r.selector

BackendBuilders ==
  { "createPostgres", "createMySQL", "createMariaDB", "createRedis",
    "createMemcached", "createKafka", "createRabbitMQ", "createBeanstalkd",
    "createMinio", "createMeilisearch" }

\* the enablement flag of the backend a builder builds
BackendEnabled(b) ==
  CASE b = "createPostgres" -> NullishBool("postgres:enabled", isLocal)
    [] b = "createMySQL" -> NullishBool("mysql:enabled", FALSE)
    [] b = "createMariaDB" -> NullishBool("mariadb:enabled", FALSE)
    [] b = "createRedis" -> NullishBool("redis:enabled", isLocal)
    [] b = "createMemcached" -> NullishBool("memcached:enabled", FALSE)
    [] b = "createKafka" -> NullishBool("kafka:enabled", isLocal)
    [] b = "createRabbitMQ" -> NullishBool("rabbitmq:enabled", isLocal)
    [] b = "createBeanstalkd" -> NullishBool("beanstalkd:enabled", FALSE)
    [] b = "createMinio" -> NullishBool("minio:enabled", isLocal)
    [] b = "createMeilisearch" -> NullishBool("meilisearch:enabled", TRUE)

\* the fixed Secret names dependents refer to
CredentialSecretNames ==
  { "postgres-credentials", "mysql-secret", "mariadb-secret", "redis-password",
    "kafka-credentials", "rabbitmq-credentials", "minio-credentials",
    "meilisearch-credentials" }

Invoked(b) == \E i \in 1..Len(invoked) : invoked[i] = b

\* C4: a backend builder whose enablement flag resolves false registers no
\* workload and no Service; all it may register is a credential Secret of a
\* fixed name
C4_DisabledBackend ==
  /\ \A r \in resources :
       (r.builder \in BackendBuilders /\ ~BackendEnabled(r.builder)) =>
         /\ r.kind = "Secret"
         /\ r.name \in CredentialSecretNames
  /\ \A b \in BackendBuilders :
       ~BackendEnabled(b) =>
         \A r \in RunBuilder(b).resources :
           /\ r.kind = "Secret"
           /\ r.name \in CredentialSecretNames

\* a disabled backend's builder ran and left only its Secret
C4_Witness ==
  /\ pc = "done"
  /\ Invoked("createMySQL")
  /\ ~BackendEnabled("createMySQL")
  /\ \E r \in resources : r.builder = "createMySQL"

\* C5: with externally managed storage and no bucket, or externally managed
\* search and no host, resolution throws an error naming the missing key, and a
\* configuration that is returned carries the overridden value
C5_RequiredFailsFast ==
  /\ (resolved.getter = "getStorageConfig" /\ ~NullishBool("minio:enabled", isLocal)) =>
       IF Has("s3:bucket")
       THEN error = NoError /\ resolved.value.type = "s3"
              /\ resolved.value.bucket = Get("s3:bucket")
       ELSE error.kind = "ConfigMissingError" /\ error.key = "s3:bucket"
  /\ (resolved.getter = "getSearchConfig" /\ ~NullishBool("meilisearch:enabled", TRUE)) =>
       IF Has("elasticsearch:host")
       THEN error = NoError /\ resolved.value.type = "elasticsearch"
              /\ resolved.value.host = Get("elasticsearch:host")
       ELSE error.kind = "ConfigMissingError" /\ error.key = "elasticsearch:host"

\* the bucket is missing and the call has thrown
C5_Witness ==
  /\ resolved.getter = "getStorageConfig"
  /\ ~Has("s3:bucket")
  /\ error = ConfigMissingError("s3:bucket")

\* C6: when the missing-required-configuration error is raised no resource has
\* been described, and a failed pass holds no resources
C6_AbortBeforeResources ==
  (error.kind = "ConfigMissingError" \/ pc = "failed") => resources = {}

\* the steps a pass can be at before the engine switch of a capability is over
UpToSwitch(cap) ==
  CASE cap = "database" -> {"start", "database"}
    [] cap = "cache" -> {"start", "database", "cache"}
    [] cap = "queue" -> {"start", "database", "cache", "queue"}

\* C7: an engine identifier outside its enumeration makes the pass fail at the
\* engine switch; the pass is never found beyond the switch with it
C7_InvalidEngineFatal ==
  \A cap \in Capabilities :
    Selected(cap) \notin Enumeration(cap) =>
      (pc \in UpToSwitch(cap) \/ (pc = "failed" /\ error # NoError))

\* C8: a field whose key is overridden resolves to the overridden value,
\* boolean false and numeric 0 included
C8_OverrideFirst ==
  /\ resolved.getter = "getLaravelConfig" =>
       /\ Has("laravel:debug") => resolved.value.debug = GetBoolean("laravel:debug")
       /\ Has("laravel:webReplicas") =>
            resolved.value.webReplicas = GetNumber("laravel:webReplicas")
  /\ resolved.getter = "getPostgresConfig" =>
       /\ Has("postgres:enabled") =>
            resolved.value.enabled = GetBoolean("postgres:enabled")
       /\ Has("postgres:replicas") =>
            resolved.value.replicas = GetNumber("postgres:replicas")
  /\ resolved.getter = "getRedisConfig" =>
       /\ Has("redis:enabled") => resolved.value.enabled = GetBoolean("redis:enabled")
       /\ Has("redis:tls") => resolved.value.tls = GetBoolean("redis:tls")

\* C9: an overridden feature flag resolves to the override under every
\* classification, and resolving the flags never throws
C9_FlagOverrideWins ==
  resolved.getter = "getFeatureFlags" =>
    /\ error = NoError
    /\ Has("features:hpa") => resolved.value.hpa = GetBoolean("features:hpa")
    /\ Has("features:pdb") => resolved.value.pdb = GetBoolean("features:pdb")
    /\ Has("features:networkPolicies") =>
         resolved.value.networkPolicies = GetBoolean("features:networkPolicies")
    /\ Has("features:podSecurityPolicies") =>
         resolved.value.podSecurityPolicies = GetBoolean("features:podSecurityPolicies")
    /\ Has("features:resourceQuotas") =>
         resolved.value.resourceQuotas = GetBoolean("features:resourceQuotas")

\* production with features:hpa overridden to false
C9_Witness ==
  /\ resolved.getter = "getFeatureFlags"
  /\ stack = "production"
  /\ Has("features:hpa")
  /\ Get("features:hpa") = "false"
  /\ resolved.value.hpa = FALSE

\* C10: with cache engine valkey, what the Redis builder registers carries the
\* identity label valkey
C10_ValkeyOwnLabel ==
  getCacheConfig.engine = "valkey" =>
    \A r \in resources :
      r.builder = "createRedis" => r.labels[APP_NAME] = EngineLabel("valkey")

KafkaSets(rs) == {r \in rs : r.kind = "StatefulSet" /\ r.builder = "createKafka"}

\* C11: with queue engine kafka and N replicas, the brokers' self-identities
\* are exactly the ones derived from the ordinals 0..N-1 of the replica set,
\* one per ordinal, read from the pod and not from a configured value; and
\* after a run with a different replica count every ordinal that exists in
\* both broker sets has the same identity and the same configuration.
C11_OrdinalIdentity ==
  /\ \A s \in KafkaSets(resources) :
       /\ s.env["KAFKA_NODE_ID"].from = "fieldRef"
       /\ \A p \in Pods(s) :
            p.env["KAFKA_NODE_ID"] = s.name \o "-" \o ToString(p.ordinal)
       /\ {p.ordinal : p \in Pods(s)} = 0 .. (s.replicas[1] - 1)
       /\ \A p, q \in Pods(s) :
            p.env["KAFKA_NODE_ID"] = q.env["KAFKA_NODE_ID"] => p = q
  /\ previous.run =>
       \A old \in KafkaSets(previous.resources), new \in KafkaSets(resources) :
         \A i \in Ordinals(old) \cap Ordinals(new) : Pod(old, i) = Pod(new, i)

\* a three-broker set was scaled to five
C11_Witness ==
  /\ previous.run
  /\ getQueueConfig.engine = "kafka"
  /\ \E old \in KafkaSets(previous.resources), new \in KafkaSets(resources) :
       old.replicas = <<3>> /\ new.replicas = <<5>>

\* this step assigns the result of a builder call to the variable h
WritesHandle(h) ==
  /\ Len(invoked') = Len(invoked) + 1
  /\ HandleOf(invoked'[Len(invoked')]) = h
  /\ handles'[h].defined

\* the keys the export statements publish
ExportKeys == {e.key : e \in ExportTable} \cup DOMAIN PlainExports

\* C12: within one pass no key of the output map is written twice: the
\* export statements name pairwise different keys, a key that is published
\* keeps its value in every later step, and no step assigns a builder
\* result to a variable that already holds one.
C12_WriteOnce ==
  [][/\ \A e1, e2 \in ExportTable : e1.key = e2.key => e1 = e2
     /\ {e.key : e \in ExportTable} \cap DOMAIN PlainExports = {}
     /\ DOMAIN outputs' \subseteq ExportKeys
     /\ \A k \in DOMAIN outputs :
          k \in DOMAIN outputs' /\ outputs'[k] = outputs[k]
     /\ \A h \in HandleNames : handles[h].defined => ~WritesHandle(h)]_vars

\* redis serves as cache and as queue, and its service is published
C12_Witness ==
  /\ pc = "done"
  /\ getQueueConfig.engine = "redis"
  /\ getCacheConfig.engine \in {"redis", "valkey"}
  /\ "redisService" \in DOMAIN outputs
  /\ handles["redis"].defined

SummaryCapabilities == {"database", "cache", "queue", "storage", "search"}

\* the builder that materializes the engine selected for a capability
BuilderOfSelected(cap) ==
  CASE cap = "database" -> DatabaseSwitch(getDatabaseConfig.engine).builder
    [] cap = "cache" -> CacheSwitch(getCacheConfig.engine).builder
    [] cap = "queue" -> QueueSwitch(getQueueConfig.engine, FALSE).builder
    [] cap = "storage" ->
         IF getStorageConfig.type = "minio" THEN "createMinio" ELSE "none"
    [] cap = "search" ->
         IF getSearchConfig.type = "meilisearch" THEN "createMeilisearch" ELSE "none"

Workloads == {"StatefulSet", "Deployment"}

\* the selected engine's builder registered a workload in this pass
Materialized(cap) ==
  \E r \in resources : r.builder = BuilderOfSelected(cap) /\ r.kind \in Workloads

\* C13: when the pass is complete, the summary marks a capability as
\* in-cluster exactly when the engine selected for it was materialized as a
\* workload in this pass, and as external exactly when it was not.
C13_SummaryExact ==
  pc = "done" => \A cap \in SummaryCapabilities : summary[cap] <=> Materialized(cap)

\* the credential fields of a getter's result, each with the key it is read from
CredentialFields(g) ==
  CASE g = "getLaravelConfig" -> {[field |-> "appKey", key |-> "laravel:appKey"]}
    [] g = "getPostgresConfig" -> {[field |-> "password", key |-> "postgres:password"]}
    [] g = "getRabbitMQConfig" -> {[field |-> "password", key |-> "rabbitmq:password"]}
    [] g = "getStorageConfig" ->
         IF resolved.value.type = "minio"
         THEN { [field |-> "accessKey", key |-> "minio:accessKey"],
                [field |-> "secretKey", key |-> "minio:secretKey"] }
         ELSE { [field |-> "accessKey", key |-> "s3:accessKey"],
                [field |-> "secretKey", key |-> "s3:secretKey"] }
    [] OTHER -> {}

\* a plain string that no override supplied
RawLiteral(credential, key) == credential.form = "literal" /\ ~Has(key)

\* C14: in every configuration a getter returns, each credential field is a
\* configured plain value or a deferred secret, and under a production stack
\* none is a plain literal that the code supplied itself.
C14_NoRawLiteral ==
  (resolved.getter # "none" /\ error = NoError) =>
    \A c \in CredentialFields(resolved.getter) :
      /\ resolved.value[c.field].form \in {"literal", "secret"}
      /\ isProduction => ~RawLiteral(resolved.value[c.field], c.key)

\* the builder b is the one of the engine or backend type that is selected
SelectedFor(b) ==
  CASE b \in {"createPostgres", "createMySQL", "createMariaDB"} ->
         BuilderOfSelected("database") = b
    [] b \in {"createMemcached"} -> BuilderOfSelected("cache") = b
    [] b \in {"createRedis"} ->
         BuilderOfSelected("cache") = b \/ BuilderOfSelected("queue") = b
    [] b \in {"createKafka", "createRabbitMQ", "createBeanstalkd"} ->
         BuilderOfSelected("queue") = b
    [] b = "createMinio" -> NullishBool("minio:enabled", isLocal)
    [] b = "createMeilisearch" -> NullishBool("meilisearch:enabled", TRUE)
    [] OTHER -> TRUE

\* C15: a builder called for an engine or backend type that is not the
\* selected one ends with an error, never with a normal return.
C15_FailsLoudly ==
  \A b \in Builders :
    (pc = "built" /\ invoked = <<b>> /\ ~SelectedFor(b)) => error # NoError

FixedRoleBuilders ==
  { "createLaravelApp", "createLaravelWorker", "createLaravelReverb",
    "createIngress", "createObservability" }

FixedRole(rs) == {r \in rs : r.builder \in FixedRoleBuilders}

LabelMaps(rs) == {[rname |-> r.rname, labels |-> r.labels] : r \in rs}

SelectorMaps(rs) == {[rname |-> r.rname, selector |-> r.selector] : r \in rs}

C18_SelectorProperSubset ==
  resolved.getter = "generateLabels" =>
    LET labels == resolved.value.labels
        selector == resolved.value.selector
    IN /\ DOMAIN selector \subseteq DOMAIN labels
       /\ DOMAIN selector # DOMAIN labels
       /\ \A k \in DOMAIN selector : selector[k] = labels[k]
       /\ ENVIRONMENT \notin DOMAIN selector
       /\ APP_VERSION \notin DOMAIN selector

\* both utilities were called with an explicit environment and version
C18_Witness ==
  /\ resolved.getter = "generateLabels"
  /\ resolved.value.labels[ENVIRONMENT] = "production"
  /\ resolved.value.labels[APP_VERSION] = "1.0.0"
  /\ resolved.value.selector[APP_NAME] = "postgres"

PersistenceBuilders ==
  { "createPostgres", "createMySQL", "createMariaDB", "createKafka",
    "createRabbitMQ", "createMinio" }

\* the storage size of a backend's resolved configuration, <<>> when the
\* configuration object has no such field
ConfigStorageSize(b) ==
  CASE b = "createPostgres" -> <<getPostgresConfig.storageSize>>
    [] b = "createMySQL" -> <<getMySQLConfig.storageSize>>
    [] b = "createMariaDB" -> <<getMariaDBConfig.storageSize>>
    [] b = "createKafka" -> <<getKafkaConfig.storageSize>>
    [] b = "createRabbitMQ" ->
         IF "storageSize" \in DOMAIN getRabbitMQConfig
         THEN <<getRabbitMQConfig["storageSize"]>> ELSE <<>>
    [] b = "createMinio" -> <<getStorageConfig.storageSize>>

\* C19: the workload of every database, broker and object-store builder is
\* a StatefulSet whose volume claim template requests the storage size of
\* that backend's resolved configuration.
C19_StorageFromConfig ==
  \A r \in resources :
    (r.builder \in PersistenceBuilders /\ r.kind \in Workloads) =>
      /\ r.kind = "StatefulSet"
      /\ r.storage # <<>>
      /\ r.storage = ConfigStorageSize(r.builder)

\* C20: under the local stack with no overrides the getters resolve
\* autoscaling off, disruption budgets off, the database engine postgresql,
\* the cache engine redis and one replica for the database and for the cache.
C20_LocalDefaults ==
  (stack = "local" /\ cfg = NoOverrides /\ resolved.getter # "none") =>
    /\ resolved.getter = "getFeatureFlags" =>
         ~resolved.value.hpa /\ ~resolved.value.pdb
    /\ resolved.getter = "getDatabaseConfig" => resolved.value.engine = "postgresql"
    /\ resolved.getter = "getCacheConfig" => resolved.value.engine = "redis"
    /\ resolved.getter = "getPostgresConfig" => resolved.value.replicas = 1
    /\ resolved.getter = "getRedisConfig" => resolved.value.replicas = 1

\* the database engine was resolved under local without overrides
C20_Witness ==
  /\ stack = "local"
  /\ cfg = NoOverrides
  /\ resolved.getter = "getDatabaseConfig"

\* createRedis registered its Deployment
RedisInCluster == \E r \in resources : r.builder = "createRedis" /\ r.kind = "Deployment"

\* C21: whenever createRedis has materialized Redis in the cluster, the
\* Secret redis-password exists too, with or without a configured password.
C21_RedisSecretAlways ==
  RedisInCluster =>
    \E r \in resources : r.kind = "Secret" /\ r.name = "redis-password"

\* the scaling fields of a resolved laravel configuration:
\* <<replicas, minReplicas, maxReplicas>> of web, worker and reverb
ScalingOf(laravelConfig) ==
  [ web |-> <<laravelConfig.webReplicas, laravelConfig.webMinReplicas,
              laravelConfig.webMaxReplicas>>,
    worker |-> <<laravelConfig.workerReplicas, laravelConfig.workerMinReplicas,
                 laravelConfig.workerMaxReplicas>>,
    reverb |-> <<laravelConfig.reverbReplicas, laravelConfig.reverbMinReplicas,
                 laravelConfig.reverbMaxReplicas>> ]

\* C22: with no overrides the scaling fields resolve to 1/1/10, 1/1/20 and
\* 1/1/5 (web, worker, reverb) under local, and to 3/3/20, 2/2/50 and 2/2/10
\* under production.
C22_ScalingDefaults ==
  (resolved.getter = "getLaravelConfig" /\ cfg = NoOverrides) =>
    /\ stack = "local" =>
         ScalingOf(resolved.value) =
           [web |-> <<1, 1, 10>>, worker |-> <<1, 1, 20>>, reverb |-> <<1, 1, 5>>]
    /\ stack = "production" =>
         ScalingOf(resolved.value) =
           [web |-> <<3, 3, 20>>, worker |-> <<2, 2, 50>>, reverb |-> <<2, 2, 10>>]

\* C23: with no override of mysql:enabled / mariadb:enabled, the MySQL and
\* MariaDB configurations resolve enabled under a local stack and disabled
\* under a production stack.
C23_MySQLMariaDBEnabled ==
  /\ (resolved.getter = "getMySQLConfig" /\ ~Has("mysql:enabled")) =>
       /\ isLocal => resolved.value.enabled
       /\ isProduction => ~resolved.value.enabled
  /\ (resolved.getter = "getMariaDBConfig" /\ ~Has("mariadb:enabled")) =>
       /\ isLocal => resolved.value.enabled
       /\ isProduction => ~resolved.value.enabled

RuntimeTierBuilders == {"createLaravelApp", "createLaravelWorker", "createLaravelReverb"}

\* the Secret names the runtime-tier workloads read through secretKeyRef
ReferencedSecrets(rs) ==
  { r.env[n].ref : <<r, n>> \in
      { t \in rs \X UNION {DOMAIN r.env : r \in rs} :
          /\ t[1].builder \in RuntimeTierBuilders
          /\ t[2] \in DOMAIN t[1].env
          /\ t[1].env[t[2]].from = "secretKeyRef" } }

\* C24: when a pass is complete, every Secret a runtime-tier workload
\* references through secretKeyRef was registered as a Secret in that pass.
C24_ReferencedSecretsExist ==
  pc = "done" =>
    \A secretName \in ReferencedSecrets(resources) :
      \E r \in resources : r.kind = "Secret" /\ r.name = secretName

\* the positions of the builder b in the sequence of calls
CallsOf(b) == {i \in DOMAIN invoked : invoked[i] = b}

\* C25: for every cache engine and queue engine, createRedis is called at
\* most once in a pass, so the names redis, redis-service and redis-password
\* are registered at most once.
C25_RedisOnce == Cardinality(CallsOf("createRedis")) <= 1

\* the cache and the queue both select redis and the pass is complete
C25_Witness ==
  /\ pc = "done"
  /\ getCacheConfig.engine = "redis"
  /\ getQueueConfig.engine = "redis"
  /\ Cardinality(CallsOf("createRedis")) = 1
  /\ RedisInCluster

RuntimeDeployments(rs) ==
  {r \in rs : r.kind = "Deployment" /\ r.builder \in RuntimeTierBuilders}

\* the autoscalers whose scaleTargetRef names the workload d
AutoscalersOf(d, rs) ==
  {h \in rs : h.kind = "HorizontalPodAutoscaler" /\ h.target = d.name}

\* C26: for the web, worker and reverb Deployments, an autoscaler targeting
\* the Deployment exists exactly when the hpa flag resolves true, and the
\* Deployment's replica count is unset exactly when that autoscaler exists.
C26_AutoscalerOrReplicas ==
  \A d \in RuntimeDeployments(resources) :
    /\ AutoscalersOf(d, resources) # {} <=> getFeatureFlags.hpa
    /\ d.replicas = <<>> <=> AutoscalersOf(d, resources) # {}

\* the three workloads were built with autoscaling on
C26_Witness ==
  /\ getFeatureFlags.hpa
  /\ Cardinality(RuntimeDeployments(resources)) = 3
  /\ \A d \in RuntimeDeployments(resources) :
       d.replicas = <<>> /\ Cardinality(AutoscalersOf(d, resources)) = 1

\* the governing service of the kafka StatefulSet
KafkaServiceName == "kafka-headless"

\* the stable network name of a pod of the set
PodHost(pod) == pod.name \o "." \o KafkaServiceName

\* the voter entries a list can be made of: ids written as numbers or as pod
\* names, hosts of the first ordinals
VoterCandidates ==
  { [id |-> i, host |-> h, port |-> "9093"] :
      i \in {"0", "1", "2", "kafka-0", "kafka-1", "kafka-2"},
      h \in {"kafka-0.kafka-headless", "kafka-1.kafka-headless",
             "kafka-2.kafka-headless"} }

\* the entries read back from the voter list of the set
VotersOf(statefulSet) ==
  LET written == statefulSet.env["KAFKA_CONTROLLER_QUORUM_VOTERS"].ref
      lists == {<<v>> : v \in VoterCandidates}
                 \cup {<<v, w>> : v \in VoterCandidates, w \in VoterCandidates}
      vs == CHOOSE l \in lists : VoterList(l) = written
  IN {vs[i] : i \in DOMAIN vs}

\* C27: in every Kafka replica set built, each entry id@host of the
\* controller quorum voter list names a broker of that set whose
\* self-identity equals id.
C27_VotersConsistent ==
  \A s \in KafkaSets(resources) :
    \A v \in VotersOf(s) :
      \E p \in Pods(s) : PodHost(p) = v.host /\ p.env["KAFKA_NODE_ID"] = v.id

Autoscalers(rs) ==
  {h \in rs : h.kind = "HorizontalPodAutoscaler" /\ h.builder \in RuntimeTierBuilders}

\* C28: for every resolved configuration, with or without overrides,
\* minReplicas <= maxReplicas for the web, worker and reverb tiers, and so
\* for every autoscaler created.
C28_MinAtMostMax ==
  /\ LET laravelConfig == getLaravelConfig
     IN /\ laravelConfig.webMinReplicas <= laravelConfig.webMaxReplicas
        /\ laravelConfig.workerMinReplicas <= laravelConfig.workerMaxReplicas
        /\ laravelConfig.reverbMinReplicas <= laravelConfig.reverbMaxReplicas
  /\ \A h \in Autoscalers(resources) : h.minReplicas[1] <= h.maxReplicas[1]

\* the smallest replica count the workload d can run at
SmallestReplicas(d, rs) ==
  IF d.replicas # <<>>
  THEN d.replicas[1]
  ELSE LET h == CHOOSE a \in AutoscalersOf(d, rs) : TRUE IN h.minReplicas[1]

\* C29: a disruption budget of a runtime-tier workload has minAvailable at
\* least 1 and strictly less than the smallest replica count the workload
\* can run at: the fixed replica count when autoscaling is off, the
\* autoscaler's minReplicas when it is on.
C29_EvictionPermitted ==
  \A b \in resources :
    (b.kind = "PodDisruptionBudget" /\ b.builder \in RuntimeTierBuilders) =>
      \A d \in RuntimeDeployments(resources) :
        d.selector = b.selector =>
          /\ b.minAvailable[1] >= 1
          /\ b.minAvailable[1] < SmallestReplicas(d, resources)

\* the builders of the backends whose configuration carries a port
PortOf(builder) ==
  CASE builder = "createPostgres" -> getPostgresConfig.port
    [] builder = "createMySQL" -> getMySQLConfig.port
    [] builder = "createMariaDB" -> getMariaDBConfig.port
    [] builder = "createRedis" -> getRedisConfig.port
    [] builder = "createRabbitMQ" -> getRabbitMQConfig.port
    [] builder = "createMemcached" -> getMemcachedConfig.port
    [] builder = "createBeanstalkd" -> getBeanstalkdConfig.port

\* C30: for every in-cluster backend, the port of its Service and of its
\* container equals the port of the backend's resolved configuration, also
\* when the port is overridden.
C30_PortFromConfig ==
  \A r \in resources : r.port # <<>> => r.port[1] = PortOf(r.builder)

====
